---- MODULE Spec2Model ----
(***************************************************************************)
(* Model of the action executor of tools/idf.py: the ACTIONS table, the     *)
(* argument check done by argparse, the recursive execute_action closure   *)
(* and the main loop that consumes args.actions.                           *)
(*                                                                         *)
(* The recursion of execute_action is modelled with an explicit call       *)
(* stack; a frame holds the parameters (action, remaining_actions) and     *)
(* the position inside the body of execute_action.                         *)
(***************************************************************************)
EXTENDS Integers, Sequences, FiniteSets, TLC

VARIABLES
    registry,           \* the module-level dict ACTIONS
    argv,               \* the positional arguments given on the command line
    pc,                 \* position in main(): "parse", "env", "loop", "exec", "exit"
    actions,            \* args.actions, the queue consumed by the main loop
    completed_actions,  \* the set completed_actions of main()
    stack,              \* call stack of execute_action, innermost frame last
    log,                \* history: the handler invocations, in order
    exit_status,        \* process exit status, -1 while the process runs
    prev                \* history: the finished earlier invocation of the tool, if any

vars == <<registry, argv, pc, actions, completed_actions, stack, log, exit_status, prev>>

\* ---------------------------------------------------------------- bounds
\* longest command line of the single-run specification
MaxLen == 2

\* longest command line of the two-run specification
MaxLenRerun == 1

\* longest command line of the specification over the build actions only
MaxLenLong == 3

\* deepest nesting of execute_action the interpreter allows before it raises
\* RuntimeError (maximum recursion depth exceeded); the real limit is far
\* larger, the table as written never nests deeper than five calls
RecursionLimit == 6

\* ---------------------------------------------------------------- registry
Entry(function, dependencies, order_dependencies) ==
    [function |-> function, dependencies |-> dependencies,
     order_dependencies |-> order_dependencies]

\* the table with flash listed as an order-only dependency of all, which
\* closes a cycle through the hard dependency of flash on all
ACTIONS_looped ==
    ("all"                   :> Entry("build_target()", <<>>, <<"menuconfig", "clean", "fullclean", "flash">>)) @@
    ("build"                 :> Entry("all",            <<>>, <<>>)) @@
    ("clean"                 :> Entry("clean()",        <<>>, <<"fullclean">>)) @@
    ("fullclean"             :> Entry("fullclean()",    <<>>, <<>>)) @@
    ("menuconfig"            :> Entry("build_target()", <<>>, <<>>)) @@
    ("size"                  :> Entry("build_target()", <<>>, <<"app">>)) @@
    ("size-components"       :> Entry("build_target()", <<>>, <<"app">>)) @@
    ("size-files"            :> Entry("build_target()", <<>>, <<"app">>)) @@
    ("bootloader"            :> Entry("build_target()", <<>>, <<>>)) @@
    ("bootloader-clean"      :> Entry("build_target()", <<>>, <<>>)) @@
    ("bootloader-flash"      :> Entry("flash()",        <<"bootloader">>, <<>>)) @@
    ("app"                   :> Entry("build_target()", <<>>, <<>>)) @@
    ("app-flash"             :> Entry("flash()",        <<>>, <<"app">>)) @@
    ("partition_table"       :> Entry("build_target()", <<>>, <<>>)) @@
    ("partition_table-flash" :> Entry("flash()",        <<"partition_table">>, <<>>)) @@
    ("flash"                 :> Entry("flash()",        <<"all">>, <<>>)) @@
    ("erase_flash"           :> Entry("erase_flash()",  <<>>, <<>>)) @@
    ("monitor"               :> Entry("monitor()",      <<>>,
          <<"flash", "partition_table-flash", "bootloader-flash", "app-flash">>))

\* The table ACTIONS of idf.py (ACTIONS is a reserved word of TLA+).
\* A handler is written "name()", so that a handler is never a key of the
\* table while an alias (a plain action name) is.
ACTIONS_ ==
    ("all"                   :> Entry("build_target()", <<>>, <<"menuconfig", "clean", "fullclean">>)) @@
    ("build"                 :> Entry("all",            <<>>, <<>>)) @@
    ("clean"                 :> Entry("clean()",        <<>>, <<"fullclean">>)) @@
    ("fullclean"             :> Entry("fullclean()",    <<>>, <<>>)) @@
    ("menuconfig"            :> Entry("build_target()", <<>>, <<>>)) @@
    ("size"                  :> Entry("build_target()", <<>>, <<"app">>)) @@
    ("size-components"       :> Entry("build_target()", <<>>, <<"app">>)) @@
    ("size-files"            :> Entry("build_target()", <<>>, <<"app">>)) @@
    ("bootloader"            :> Entry("build_target()", <<>>, <<>>)) @@
    ("bootloader-clean"      :> Entry("build_target()", <<>>, <<>>)) @@
    ("bootloader-flash"      :> Entry("flash()",        <<"bootloader">>, <<>>)) @@
    ("app"                   :> Entry("build_target()", <<>>, <<>>)) @@
    ("app-flash"             :> Entry("flash()",        <<>>, <<"app">>)) @@
    ("partition_table"       :> Entry("build_target()", <<>>, <<>>)) @@
    ("partition_table-flash" :> Entry("flash()",        <<"partition_table">>, <<>>)) @@
    ("flash"                 :> Entry("flash()",        <<"all">>, <<>>)) @@
    ("erase_flash"           :> Entry("erase_flash()",  <<>>, <<>>)) @@
    ("monitor"               :> Entry("monitor()",      <<>>,
          <<"flash", "partition_table-flash", "bootloader-flash", "app-flash">>))

\* What a user can type: the keys of the table and a name that is not a key.
ArgNames == DOMAIN ACTIONS_ \cup {"bogus"}

\* Outcomes of one handler call: it returns, raises FatalError, or raises
\* some other exception (OSError, IOError, KeyError, ...).
HandlerResults == {"ok", "FatalError", "Exception"}

Range(s) == {s[k] : k \in 1..Len(s)}

BoundedSeq(S, n) == UNION {[1..k -> S] : k \in 0..n}

\* ---------------------------------------------------------------- helpers
\* argparse: nargs='+' wants one action at least, choices=ACTIONS.keys()
ArgsAccepted_nonempty(args) == Len(args) > 0

ArgsAccepted(args) ==
    /\ Len(args) > 0
    /\ \A k \in 1..Len(args) : args[k] \in DOMAIN registry

HardDepNeeded_never(dep, completed) == FALSE

\* line 334: "if not dep in completed_actions"
HardDepNeeded(dep, completed) == dep \notin completed

OrderDepNeeded_never(dep, remaining, completed) == FALSE

OrderDepNeeded_unrequested(dep, remaining, completed) == dep \notin completed

OrderDepNeeded_again(dep, remaining, completed) == dep \in Range(remaining)

\* line 337: "if dep in remaining_actions and not dep in completed_actions"
OrderDepNeeded(dep, remaining, completed) ==
    dep \in Range(remaining) /\ dep \notin completed

AlreadyDone_never(action, completed) == FALSE

\* line 340: "if action in completed_actions"
AlreadyDone(action, completed) == action \in completed

IsAlias_never(function) == FALSE

\* line 342: "elif function in ACTIONS"
IsAlias(function) == function \in DOMAIN registry

Raises_never(result) == FALSE

\* An exception leaves execute_action and main(); FatalError is caught at
\* the bottom of the file and turned into sys.exit(2), anything else ends
\* the interpreter with a traceback and status 1.
Raises(result) == result # "ok"

ExitStatusOf(result) == IF result = "FatalError" THEN 2 ELSE 1

Frame(action, remaining) ==
    [action |-> action, remaining_actions |-> remaining, pc |-> "lookup", i |-> 1]

Top == stack[Len(stack)]

SetTop(f) == [stack EXCEPT ![Len(stack)] = f]

Call_alone(f, callee) == Append(SetTop(f), Frame(callee, <<>>))

\* execute_action(callee, remaining_actions), from a frame that continues as f
Call(f, callee) == Append(SetTop(f), Frame(callee, Top.remaining_actions))

\* ---------------------------------------------------------------- states
Init ==
    /\ registry = ACTIONS_
    /\ argv \in BoundedSeq(ArgNames, MaxLen)
    /\ pc = "parse"
    /\ actions = <<>>
    /\ completed_actions = {}
    /\ stack = <<>>
    /\ log = <<>>
    /\ exit_status = -1
    /\ prev = <<>>

\* parser.parse_args(): an empty or unknown action is a usage error, exit 2
ParseArgs ==
    /\ pc = "parse"
    /\ IF ArgsAccepted(argv)
       THEN /\ actions' = argv
            /\ pc' = "env"
            /\ exit_status' = exit_status
       ELSE /\ actions' = actions
            /\ pc' = "exit"
            /\ exit_status' = 2
    /\ UNCHANGED <<registry, argv, completed_actions, stack, log, prev>>

CheckEnvironment_keeps ==
    /\ pc = "env"
    /\ \E result \in {"ok", "FatalError"} :
         IF Raises(result)
         THEN /\ pc' = "exit"
              /\ exit_status' = ExitStatusOf(result)
         ELSE /\ pc' = "loop"
              /\ exit_status' = exit_status
    /\ UNCHANGED <<registry, argv, actions, completed_actions, stack, log, prev>>

\* check_environment() and the build directory checks; either may raise
\* FatalError. Then completed_actions = set().
CheckEnvironment ==
    /\ pc = "env"
    /\ \E result \in {"ok", "FatalError"} :
         IF Raises(result)
         THEN /\ pc' = "exit"
              /\ exit_status' = ExitStatusOf(result)
         ELSE /\ pc' = "loop"
              /\ exit_status' = exit_status
    /\ completed_actions' = {}
    /\ UNCHANGED <<registry, argv, actions, stack, log, prev>>

\* while len(args.actions) > 0: execute_action(args.actions[0], args.actions[1:])
MainLoop ==
    /\ pc = "loop"
    /\ IF Len(actions) > 0
       THEN /\ stack' = <<Frame(Head(actions), Tail(actions))>>
            /\ pc' = "exec"
            /\ exit_status' = exit_status
       ELSE /\ stack' = stack
            /\ pc' = "exit"
            /\ exit_status' = 0
    /\ UNCHANGED <<registry, argv, actions, completed_actions, log, prev>>

\* ( function, dependencies, order_dependencies ) = ACTIONS[action]
Lookup ==
    /\ pc = "exec"
    /\ stack # <<>>
    /\ Top.pc = "lookup"
    /\ IF Top.action \in DOMAIN registry /\ Len(stack) <= RecursionLimit
       THEN /\ stack' = SetTop([Top EXCEPT !.pc = "deps", !.i = 1])
            /\ UNCHANGED <<pc, exit_status>>
       ELSE /\ stack' = <<>>            \* KeyError, or RuntimeError of the interpreter
            /\ pc' = "exit"
            /\ exit_status' = ExitStatusOf("Exception")
    /\ UNCHANGED <<registry, argv, actions, completed_actions, log, prev>>

\* for dep in dependencies: if not dep in completed_actions: execute_action(dep, ...)
DepLoop ==
    /\ pc = "exec"
    /\ stack # <<>>
    /\ Top.pc = "deps"
    /\ LET deps == registry[Top.action].dependencies
           next == [Top EXCEPT !.i = Top.i + 1]
       IN  IF Top.i > Len(deps)
           THEN stack' = SetTop([Top EXCEPT !.pc = "order", !.i = 1])
           ELSE IF HardDepNeeded(deps[Top.i], completed_actions)
                THEN stack' = Call(next, deps[Top.i])
                ELSE stack' = SetTop(next)
    /\ UNCHANGED <<registry, argv, pc, actions, completed_actions, log, exit_status, prev>>

\* for dep in order_dependencies: if dep in remaining_actions and not dep in
\* completed_actions: execute_action(dep, ...)
OrderLoop ==
    /\ pc = "exec"
    /\ stack # <<>>
    /\ Top.pc = "order"
    /\ LET deps == registry[Top.action].order_dependencies
           next == [Top EXCEPT !.i = Top.i + 1]
       IN  IF Top.i > Len(deps)
           THEN stack' = SetTop([Top EXCEPT !.pc = "body", !.i = 1])
           ELSE IF OrderDepNeeded(deps[Top.i], Top.remaining_actions, completed_actions)
                THEN stack' = Call(next, deps[Top.i])
                ELSE stack' = SetTop(next)
    /\ UNCHANGED <<registry, argv, pc, actions, completed_actions, log, exit_status, prev>>

Body_marks_failed ==
    /\ pc = "exec"
    /\ stack # <<>>
    /\ Top.pc = "body"
    /\ LET function == registry[Top.action].function
           next == [Top EXCEPT !.pc = "add"]
       IN  IF AlreadyDone(Top.action, completed_actions)
           THEN /\ stack' = SetTop(next)
                /\ UNCHANGED <<pc, log, exit_status, completed_actions>>
           ELSE IF IsAlias(function)
           THEN /\ stack' = Call(next, function)
                /\ UNCHANGED <<pc, log, exit_status, completed_actions>>
           ELSE \E result \in HandlerResults :
                /\ log' = Append(log, [function |-> function,
                                       action |-> Top.action, result |-> result])
                /\ IF Raises(result)
                   THEN /\ stack' = <<>>
                        /\ pc' = "exit"
                        /\ exit_status' = ExitStatusOf(result)
                        /\ completed_actions' = completed_actions \cup {Top.action}
                   ELSE /\ stack' = SetTop(next)
                        /\ UNCHANGED <<pc, exit_status, completed_actions>>
    /\ UNCHANGED <<registry, argv, actions, prev>>

\* if action in completed_actions: pass
\* elif function in ACTIONS: execute_action(function, remaining_actions)
\* else: function(action, args)
Body ==
    /\ pc = "exec"
    /\ stack # <<>>
    /\ Top.pc = "body"
    /\ LET function == registry[Top.action].function
           next == [Top EXCEPT !.pc = "add"]
       IN  IF AlreadyDone(Top.action, completed_actions)
           THEN /\ stack' = SetTop(next)
                /\ UNCHANGED <<pc, log, exit_status>>
           ELSE IF IsAlias(function)
           THEN /\ stack' = Call(next, function)
                /\ UNCHANGED <<pc, log, exit_status>>
           ELSE \E result \in HandlerResults :
                /\ log' = Append(log, [function |-> function,
                                       action |-> Top.action, result |-> result])
                /\ IF Raises(result)
                   THEN /\ stack' = <<>>
                        /\ pc' = "exit"
                        /\ exit_status' = ExitStatusOf(result)
                   ELSE /\ stack' = SetTop(next)
                        /\ UNCHANGED <<pc, exit_status>>
    /\ UNCHANGED <<registry, argv, actions, completed_actions, prev>>

Add_only ==
    /\ pc = "exec"
    /\ stack # <<>>
    /\ Top.pc = "add"
    /\ completed_actions' = {Top.action}
    /\ stack' = SubSeq(stack, 1, Len(stack) - 1)
    /\ UNCHANGED <<registry, argv, pc, actions, log, exit_status, prev>>

Add_lost ==
    /\ pc = "exec"
    /\ stack # <<>>
    /\ Top.pc = "add"
    /\ stack' = SubSeq(stack, 1, Len(stack) - 1)
    /\ UNCHANGED <<registry, argv, pc, actions, completed_actions, log, exit_status, prev>>

\* completed_actions.add(action), and execute_action returns
Add ==
    /\ pc = "exec"
    /\ stack # <<>>
    /\ Top.pc = "add"
    /\ completed_actions' = completed_actions \cup {Top.action}
    /\ stack' = SubSeq(stack, 1, Len(stack) - 1)
    /\ UNCHANGED <<registry, argv, pc, actions, log, exit_status, prev>>

Pop_last ==
    /\ pc = "exec"
    /\ stack = <<>>
    /\ actions' = SubSeq(actions, 1, Len(actions) - 1)
    /\ pc' = "loop"
    /\ UNCHANGED <<registry, argv, completed_actions, stack, log, exit_status, prev>>

\* args.actions.pop(0)
Pop ==
    /\ pc = "exec"
    /\ stack = <<>>
    /\ actions' = Tail(actions)
    /\ pc' = "loop"
    /\ UNCHANGED <<registry, argv, completed_actions, stack, log, exit_status, prev>>

Next ==
    \/ ParseArgs
    \/ CheckEnvironment
    \/ MainLoop
    \/ Lookup
    \/ DepLoop
    \/ OrderLoop
    \/ Body
    \/ Add
    \/ Pop

Spec == Init /\ [][Next]_vars

\* ---------------------------------------------------------------- two runs
\* The tool is started a second time, as a new process: nothing of the
\* first process survives except what the history variable prev records.
\* The second command line is the first one with any action replaced by
\* its alias or by the target of its alias. The name completed_actions is
\* unbound in the new process until line 328 binds it; the model leaves the
\* old value there, so that only line 328 makes the second run start empty.
AliasRelated(a, b) ==
    \/ a = b
    \/ a \in DOMAIN ACTIONS_ /\ ACTIONS_[a].function = b
    \/ b \in DOMAIN ACTIONS_ /\ ACTIONS_[b].function = a

Related(args) ==
    {other \in [1..Len(args) -> ArgNames] :
        \A k \in 1..Len(args) : AliasRelated(args[k], other[k])}

InitRerun ==
    /\ registry = ACTIONS_
    /\ argv \in BoundedSeq(ArgNames, MaxLenRerun)
    /\ pc = "parse"
    /\ actions = <<>>
    /\ completed_actions = {}
    /\ stack = <<>>
    /\ log = <<>>
    /\ exit_status = -1
    /\ prev = <<>>

Restart ==
    /\ pc = "exit"
    /\ prev = <<>>
    /\ prev' = <<[argv |-> argv, log |-> log, exit_status |-> exit_status,
                  completed_actions |-> completed_actions]>>
    /\ argv' \in Related(argv)
    /\ pc' = "parse"
    /\ actions' = <<>>
    /\ stack' = <<>>
    /\ log' = <<>>
    /\ exit_status' = -1
    /\ UNCHANGED <<registry, completed_actions>>

NextRerun ==
    \/ ParseArgs
    \/ CheckEnvironment
    \/ MainLoop
    \/ Lookup
    \/ DepLoop
    \/ OrderLoop
    \/ Body
    \/ Add
    \/ Pop
    \/ Restart

SpecRerun == InitRerun /\ [][NextRerun]_vars

\* ---------------------------------------------------------------- cyclic tables
\* The table with one entry changed so that it has a cycle: all made an
\* alias of build (build is an alias of all), or bootloader made to depend
\* on bootloader-flash (which depends on bootloader). main() has no step
\* that inspects the table, so the run is the same code on another dict.
AliasCycleTable == [ACTIONS_ EXCEPT !["all"].function = "build"]

DependencyCycleTable ==
    [ACTIONS_ EXCEPT !["bootloader"].dependencies = <<"bootloader-flash">>]

InitCyclic ==
    /\ registry \in {AliasCycleTable, DependencyCycleTable}
    /\ argv \in BoundedSeq(ArgNames, MaxLen)
    /\ pc = "parse"
    /\ actions = <<>>
    /\ completed_actions = {}
    /\ stack = <<>>
    /\ log = <<>>
    /\ exit_status = -1
    /\ prev = <<>>

SpecCyclic == InitCyclic /\ [][Next]_vars

\* ---------------------------------------------------------------- longer command lines
\* Command lines of up to MaxLenLong names, over the actions that are tied
\* by order-only, hard dependency and alias entries to the build.
OrderNames == {"all", "build", "clean", "fullclean", "flash", "monitor", "app", "app-flash"}

InitLong ==
    /\ registry = ACTIONS_
    /\ argv \in BoundedSeq(OrderNames, MaxLenLong)
    /\ pc = "parse"
    /\ actions = <<>>
    /\ completed_actions = {}
    /\ stack = <<>>
    /\ log = <<>>
    /\ exit_status = -1
    /\ prev = <<>>

SpecLong == InitLong /\ [][Next]_vars

\* the single run under weak fairness: the interpreter keeps executing
SpecFair == Init /\ [][Next]_vars /\ WF_vars(Next)

\* ---------------------------------------------------------------- vocabulary of the properties
Names == DOMAIN ACTIONS_

Succeeded == pc = "exit" /\ exit_status = 0

Failed == log # <<>> /\ log[Len(log)].result # "ok"

Count(a) == Cardinality({k \in 1..Len(log) : log[k].action = a})

Invoked(a) == \E k \in 1..Len(log) : log[k].action = a

\* every invocation of a is preceded by an invocation of d that returned
Before(d, a) ==
    \A k \in 1..Len(log) : log[k].action = a =>
        \E j \in 1..(k - 1) : log[j].action = d /\ log[j].result = "ok"

AliasNames == {a \in Names : ACTIONS_[a].function \in Names}

RECURSIVE Target(_)
Target(a) == IF a \in AliasNames THEN Target(ACTIONS_[a].function) ELSE a

HardStep(S) ==
    S \cup UNION {Range(ACTIONS_[a].dependencies) : a \in S \cap Names}
      \cup {ACTIONS_[a].function : a \in S \cap AliasNames}

RECURSIVE HardClosure(_)
HardClosure(S) == IF HardStep(S) = S THEN S ELSE HardClosure(HardStep(S))

LogActions == [k \in 1..Len(log) |-> log[k].action]

\* ---------------------------------------------------------------- properties
\* C1: whenever a step invokes the handler of an action A, every hard
\* dependency D of A is in completed_actions before that step, and the
\* handler of D (of the target of D, if D is an alias) was invoked earlier
\* and has returned.
C1_HardDependencyFirst ==
    [][\A a \in Names :
         (Len(log') = Len(log) + 1 /\ log'[Len(log')].action = a) =>
            \A d \in Range(ACTIONS_[a].dependencies) :
               /\ d \in completed_actions
               /\ \E j \in 1..Len(log) :
                     log[j].action = Target(d) /\ log[j].result = "ok"]_vars

C1_Witness ==
    /\ argv = <<"flash">>
    /\ LogActions = <<"all", "flash">>
    /\ "all" \in completed_actions

\* C2: in a run that ends with success, every name of the command line,
\* however often it occurs there, has had its handler (the handler of its
\* target, for an alias) invoked exactly once; flash flash invokes
\* build_target for all once and flash once.
C2_RequestedExactlyOnce ==
    Succeeded =>
        /\ \A a \in Range(argv) : Count(Target(a)) = 1
        /\ argv = <<"flash", "flash">> => LogActions = <<"all", "flash">>

C2_Witness ==
    /\ Succeeded
    /\ argv = <<"flash", "flash">>
    /\ Count("all") = 1
    /\ Count("flash") = 1

\* C3: for A with D in its order-only list: the run of [A] never invokes D;
\* in the runs of [A, D] and of [D, A] every invocation of A comes after an
\* invocation of D, D is invoked at most once, and exactly once when the run
\* succeeds.
C3_OrderOnly ==
    \A a \in Names : \A d \in Range(ACTIONS_[a].order_dependencies) :
        /\ argv = <<a>> => ~Invoked(d)
        /\ argv \in {<<a, d>>, <<d, a>>} =>
              /\ Before(d, a)
              /\ Count(d) <= 1
              /\ Succeeded => Count(d) = 1 /\ Count(a) = 1

C3_Witness ==
    /\ Succeeded
    /\ argv = <<"all", "clean">>
    /\ LogActions = <<"clean", "all">>

\* C4: once a handler invocation has failed, the process has ended with a
\* status that is not the success status, and no handler is invoked later.
C4_FailFast ==
    /\ [](Failed => pc = "exit" /\ exit_status \in {1, 2} /\ stack = <<>>)
    /\ [][Failed => log' = log]_vars
    /\ [](\A k \in 1..(Len(log) - 1) : log[k].result = "ok")

C4_Witness ==
    /\ Failed
    /\ argv = <<"flash", "monitor">>
    /\ LogActions = <<"all">>
    /\ pc = "exit"

\* C5: for an alias X of Y that has no dependencies of its own, a successful
\* run of [X] ends with X and Y in completed_actions, and a successful run
\* of [X] and a successful run of [Y] have the same sequence of handler
\* invocations (same handler, same action argument, same order).
PlainAliases ==
    {x \in AliasNames : ACTIONS_[x].dependencies = <<>>
                        /\ ACTIONS_[x].order_dependencies = <<>>}

C5_AliasTransparent ==
    \A x \in PlainAliases :
        LET y == ACTIONS_[x].function
        IN  /\ (Succeeded /\ argv = <<x>>) => {x, y} \subseteq completed_actions
            /\ ( /\ prev # <<>>
                 /\ prev[1].exit_status = 0
                 /\ Succeeded
                 /\ {prev[1].argv, argv} = {<<x>>, <<y>>} ) =>
                     /\ log = prev[1].log
                     /\ log # <<>>

C5_Witness ==
    /\ prev # <<>>
    /\ prev[1].argv = <<"build">>
    /\ prev[1].exit_status = 0
    /\ prev[1].completed_actions = {"all", "build"}
    /\ argv = <<"all">>
    /\ Succeeded
    /\ LogActions = <<"all">>

\* C6: in every state of every run, also of a run that fails later, no
\* action has had its handler invoked more than once.
C6_AtMostOnce == \A a \in Names : Count(a) <= 1

C6_Witness ==
    /\ argv = <<"flash", "build">>
    /\ Failed
    /\ LogActions = <<"all", "flash">>

\* C7 as stated: the run of [clean, flash] invokes the handlers of the
\* actions clean, build, flash, in this order.
C7_AsStated ==
    (Succeeded /\ argv = <<"clean", "flash">>) =>
        LogActions = <<"clean", "build", "flash">>

\* C7 amended: in the table, all is the action with the handler
\* build_target and the order-only list [menuconfig, clean, fullclean],
\* build is an alias of all without dependencies, and flash depends on all;
\* the run of [clean, flash] invokes exactly clean(clean),
\* build_target(all), flash(flash), in this order.
C7_CleanFlash ==
    /\ ACTIONS_["all"] = Entry("build_target()", <<>>, <<"menuconfig", "clean", "fullclean">>)
    /\ ACTIONS_["build"] = Entry("all", <<>>, <<>>)
    /\ ACTIONS_["clean"] = Entry("clean()", <<>>, <<"fullclean">>)
    /\ ACTIONS_["flash"] = Entry("flash()", <<"all">>, <<>>)
    /\ (Succeeded /\ argv = <<"clean", "flash">>) =>
          log = << [function |-> "clean()", action |-> "clean", result |-> "ok"],
                   [function |-> "build_target()", action |-> "all", result |-> "ok"],
                   [function |-> "flash()", action |-> "flash", result |-> "ok"] >>

C7_Witness ==
    /\ Succeeded
    /\ argv = <<"clean", "flash">>
    /\ Len(log) = 3

\* C8: when some name of the command line is not a key of the table, no
\* handler is ever invoked, main() never gets past the argument parser, and
\* the process ends with the usage error status 2.
C8_UnknownAction ==
    (\E k \in 1..Len(argv) : argv[k] \notin Names) =>
        /\ log = <<>>
        /\ pc \in {"parse", "exit"}
        /\ pc = "exit" => exit_status = 2

C8_Witness ==
    /\ argv = <<"flash", "bogus">>
    /\ pc = "exit"
    /\ exit_status = 2
    /\ log = <<>>

\* C9: every action whose handler is invoked is a name of the command line
\* or is reached from one through hard dependency and alias edges only.
C9_NothingUnrequested ==
    \A k \in 1..Len(log) : log[k].action \in HardClosure(Range(argv))

C9_Witness ==
    /\ Succeeded
    /\ argv = <<"monitor", "build">>
    /\ LogActions = <<"monitor", "all">>

\* C10: when the run ends with success, every action of the closure of the
\* command line under hard dependency and alias edges is in
\* completed_actions, and every action of the closure that is not an alias
\* has had its handler invoked.
C10_ClosureCompleted ==
    Succeeded =>
        \A a \in HardClosure(Range(argv)) :
            /\ a \in completed_actions
            /\ a \notin AliasNames =>
                  \E k \in 1..Len(log) :
                      /\ log[k].action = a
                      /\ log[k].function = ACTIONS_[a].function
                      /\ log[k].result = "ok"

C10_Witness ==
    /\ Succeeded
    /\ argv = <<"bootloader-flash", "build">>
    /\ completed_actions = {"bootloader", "bootloader-flash", "all", "build"}
    /\ LogActions = <<"bootloader", "bootloader-flash", "all">>

\* C11 as stated: with a table that has an alias cycle or a hard dependency
\* cycle, the run is rejected at startup with the configuration error
\* status: execute_action is never entered and no handler is invoked.
HardEdges(table, a) ==
    Range(table[a].dependencies) \cup
    (IF table[a].function \in DOMAIN table THEN {table[a].function} ELSE {})

RECURSIVE ReachableFrom(_, _)
ReachableFrom(table, S) ==
    LET T == S \cup UNION {HardEdges(table, a) : a \in S \cap DOMAIN table}
    IN  IF T = S THEN S ELSE ReachableFrom(table, T)

HasHardCycle(table) ==
    \E a \in DOMAIN table : a \in ReachableFrom(table, HardEdges(table, a))

SameResultsBefore(k) ==
    \A j \in 1..(k - 1) : log[j].result = prev[1].log[j].result

CalledOnCompleted ==
    /\ pc = "exec"
    /\ stack # <<>>
    /\ Top.action \in completed_actions

C13_CompletedIsNoOp ==
    [][CalledOnCompleted =>
          /\ log' = log
          /\ Len(stack') <= Len(stack)
          /\ completed_actions' = completed_actions
          /\ actions' = actions
          /\ pc' = "exec"]_vars

C13_Witness ==
    /\ argv = <<"all", "build", "clean">>
    /\ Len(stack) = 2
    /\ stack[1].action = "build"
    /\ Top.action = "all"
    /\ Top.pc = "body"
    /\ Top.remaining_actions = <<"clean">>
    /\ {"all", "clean"} \subseteq completed_actions

\* C14: whenever D is in the order-only list of A and D is somewhere on the
\* command line, every invocation of the handler of A comes after an
\* invocation of the handler of D that has returned.
C14_OrderOnlyAnywhere ==
    \A a \in Names : \A d \in Range(ACTIONS_[a].order_dependencies) :
        d \in Range(argv) => Before(d, a)

C14_Witness ==
    /\ Succeeded
    /\ argv = <<"flash", "clean">>
    /\ LogActions = <<"clean", "all", "flash">>

\* C15: once the command line is parsed, args.actions is a suffix of it and
\* every name already removed is in completed_actions; args.actions changes
\* only by losing its head, after the call of execute_action for that head
\* has returned; a run that ends with success ends with it empty.
Parsed == pc # "parse" /\ argv # <<>> /\ Range(argv) \subseteq Names

IsSuffix(s, t) ==
    /\ Len(s) <= Len(t)
    /\ s = SubSeq(t, Len(t) - Len(s) + 1, Len(t))

C15_LeftToRight ==
    /\ [](Parsed =>
            /\ IsSuffix(actions, argv)
            /\ \A k \in 1..(Len(argv) - Len(actions)) : argv[k] \in completed_actions)
    /\ [](Succeeded => actions = <<>>)
    /\ [][(Parsed /\ actions' # actions) =>
            /\ pc = "exec"
            /\ stack = <<>>
            /\ actions # <<>>
            /\ Head(actions) \in completed_actions
            /\ actions' = Tail(actions)]_vars
    /\ [][(pc = "exec" /\ stack # <<>>) =>
            stack' = <<>> \/ stack'[1].action = Head(actions)]_vars

C15_Witness ==
    /\ argv = <<"monitor", "flash">>
    /\ actions = <<"flash">>
    /\ pc = "loop"
    /\ completed_actions = {"all", "flash", "monitor"}

\* C16: completed_actions is empty until the loop starts, and no step of a
\* run, a step in which a handler fails included, removes a name from it.
C16_CompletedGrows ==
    /\ [](pc \in {"parse", "env", "loop"} /\ actions = argv => completed_actions = {})
    /\ [][completed_actions \subseteq completed_actions']_vars

C16_Witness ==
    /\ argv = <<"clean", "flash">>
    /\ Failed
    /\ LogActions = <<"clean", "all", "flash">>
    /\ completed_actions = {"clean", "all"}

\* C17: a step in which a handler fails changes neither completed_actions
\* nor args.actions; after it, the failing action, every action whose call
\* was waiting on it, every alias that resolves to it, and the head of
\* args.actions are not in completed_actions.
FailingStep == Len(log') = Len(log) + 1 /\ log'[Len(log')].result # "ok"

C17_AbortKeepsPartial ==
    /\ [][FailingStep =>
            /\ completed_actions' = completed_actions
            /\ actions' = actions
            /\ \A k \in 1..Len(stack) : stack[k].action \notin completed_actions'
            /\ stack[1].action = Head(actions')]_vars
    /\ [](Failed =>
            /\ actions # <<>>
            /\ Head(actions) \notin completed_actions
            /\ log[Len(log)].action \notin completed_actions
            /\ \A x \in AliasNames :
                  Target(x) = log[Len(log)].action => x \notin completed_actions
            /\ \A k \in 1..(Len(log) - 1) : log[k].action \in completed_actions)

C17_Witness ==
    /\ argv = <<"clean", "build">>
    /\ Failed
    /\ LogActions = <<"clean", "all">>
    /\ completed_actions = {"clean"}
    /\ actions = <<"build">>

\* C19: in every state, every hard dependency of an action in
\* completed_actions is in completed_actions, and so is the target of every
\* alias in it.
C19_CompletedClosed ==
    \A a \in completed_actions :
        /\ Range(ACTIONS_[a].dependencies) \subseteq completed_actions
        /\ a \in AliasNames => ACTIONS_[a].function \in completed_actions

C19_Witness ==
    /\ argv = <<"partition_table-flash", "build">>
    /\ pc = "exec"
    /\ completed_actions = {"partition_table", "partition_table-flash", "all"}
    /\ Len(stack) = 1
    /\ Top.action = "build"

\* C18: every name the table uses as a hard dependency, an order-only
\* dependency or an alias target is a key of the table, and the hard,
\* order-only and alias edges together have no cycle; every run ends; a run
\* ends with success and args.actions empty, or it ends because a handler
\* failed, the environment check failed or the command line was refused,
\* never because a lookup in the table failed or the calls nested too deep.
AllEdges(a) ==
    Range(ACTIONS_[a].dependencies) \cup Range(ACTIONS_[a].order_dependencies)
    \cup (IF ACTIONS_[a].function \in Names THEN {ACTIONS_[a].function} ELSE {})

RECURSIVE Descendants(_)
Descendants(S) ==
    LET T == S \cup UNION {AllEdges(a) : a \in S \cap Names}
    IN  IF T = S THEN S ELSE Descendants(T)

TableClosed == \A a \in Names : AllEdges(a) \subseteq Names

TableAcyclic == \A a \in Names : a \notin Descendants(AllEdges(a))

C18_Terminates ==
    /\ [](TableClosed /\ TableAcyclic)
    /\ <>(pc = "exit")
    /\ [](pc = "exit" =>
            \/ exit_status = 0 /\ actions = <<>> /\ stack = <<>>
            \/ Failed
            \/ exit_status = 2 /\ log = <<>>)
    /\ []((pc = "exit" /\ Parsed /\ exit_status # 0) =>
            Failed \/ (log = <<>> /\ actions = argv /\ exit_status = 2))

C18_Witness ==
    /\ Succeeded
    /\ argv = <<"monitor", "monitor">>
    /\ actions = <<>>
    /\ LogActions = <<"monitor">>

====
